---- MODULE Spec2Model ----
(***************************************************************************)
(* Model of cnh_monitor.py: the acquisition functions (get_yahoo_data      *)
(* behind st.cache_data, get_shanghai_gold, get_binance_usdt_cny,          *)
(* get_cnh_hibor), calculate_metrics, analyze_risk and the script run of   *)
(* main.                                                                   *)
(*                                                                         *)
(* Python values are tagged records, so that None, numbers and dicts can   *)
(* be compared with each other the way Python compares them.  Numbers are  *)
(* exact rationals num/den (den > 0, lowest terms): float rounding is      *)
(* abstracted to real arithmetic.                                          *)
(***************************************************************************)
EXTENDS Integers, Naturals, Sequences, FiniteSets, TLC

VARIABLES
    now,          \* wall clock, seconds
    cache,        \* st.cache_data entry of get_yahoo_data: None or an entry
    requests,     \* requests issued so far, per source
    pc,           \* "idle" | "rerun" (main) ; "call" | "done" (function specs)
    clicked,      \* a cache clear happened since the last acquisition cycle
    frame,        \* what yf.download answered to the last Yahoo request
    page,         \* what jinjia.vip answered to the last request
    quote_api,    \* what a quote API would have answered (never requested)
    yahoo_data,   \* main: yahoo_data
    sh_gold,      \* main: sh_gold
    usdt_cny,     \* main: usdt_cny
    hibor_val,    \* main: hibor_val_for_logic / analyze_risk: hibor_val
    metrics,      \* main: metrics
    risk,         \* main: risk
    ui,           \* what the last script run rendered
    cycle,        \* history: the last acquisition cycle
    prev          \* history: the acquisition cycle before it

vars == <<now, cache, requests, pc, clicked, frame, page, quote_api,
          yahoo_data, sh_gold,
          usdt_cny, hibor_val, metrics, risk, ui, cycle, prev>>

----------------------------------------------------------------------------
(* Python values *)

None == [tag |-> "None"]

RECURSIVE GCD(_, _)
GCD(a, b) == IF b = 0 THEN a ELSE GCD(b, a % b)

Abs(n) == IF n < 0 THEN -n ELSE n

\* the rational n/d (d # 0) in lowest terms with a positive denominator
Q(n, d) ==
    LET g == GCD(Abs(n), Abs(d))
        s == IF d < 0 THEN -1 ELSE 1
    IN  [tag |-> "num", num |-> s * (n \div g), den |-> s * (d \div g)]

N(n) == Q(n, 1)

Sub(a, b) == Q(a.num * b.den - b.num * a.den, a.den * b.den)

\* a * b, cancelling crosswise before multiplying
Mul(a, b) ==
    LET g1 == GCD(Abs(a.num), b.den)
        g2 == GCD(Abs(b.num), a.den)
    IN  Q((a.num \div g1) * (b.num \div g2), (a.den \div g2) * (b.den \div g1))

\* a / b, b # 0
Div(a, b) == Mul(a, Q(b.den, b.num))

\* a > b
GT(a, b) == a.num * b.den > b.num * a.den

\* a < b
LT(a, b) == GT(b, a)

\* Python truth value: None, 0 and 0.0 are false, a non-empty dict is true
Truthy(v) ==
    CASE v.tag = "None" -> FALSE
      [] v.tag = "num"  -> v.num # 0
      [] OTHER          -> TRUE

----------------------------------------------------------------------------
(* analyze_risk *)

\* the thresholds of analyze_risk
SpreadHigh     == N(500)
SpreadCritical == N(1000)
CnhBreakout    == Q(735, 100)
GoldFlight     == N(30)
UsdtFlight     == Q(20, 10)
HiborSqueeze   == N(10)

Report(level, msg, color) ==
    [tag |-> "dict", level |-> level, msg |-> msg, color |-> color]

analyze_risk_eager(m, hibor) ==
    IF ~Truthy(m) THEN Report("normal", "stable", "green")
    ELSE
      LET is_spread_high     == ~LT(m.spread, SpreadHigh)
          is_spread_critical == ~LT(m.spread, SpreadCritical)
          is_cnh_breakout    == ~LT(m.cnh, CnhBreakout)
          is_capital_flight  == \/ ~LT(m.gold_premium, GoldFlight)
                                \/ ~LT(m.usdt_premium, UsdtFlight)
          is_hibor_squeeze   == hibor # None /\ GT(hibor, HiborSqueeze)
      IN  IF is_hibor_squeeze
            THEN Report("critical", "emergency_exit", "purple")
          ELSE IF is_cnh_breakout /\ is_spread_critical
            THEN Report("critical", "full_action", "red")
          ELSE IF is_spread_high \/ is_capital_flight
            THEN Report("warning", "high_alert", "orange")
          ELSE Report("normal", "stable", "green")

analyze_risk_breakout_first(m, hibor) ==
    IF ~Truthy(m) THEN Report("normal", "stable", "green")
    ELSE
      LET is_spread_high     == GT(m.spread, SpreadHigh)
          is_spread_critical == GT(m.spread, SpreadCritical)
          is_cnh_breakout    == GT(m.cnh, CnhBreakout)
          is_capital_flight  == \/ GT(m.gold_premium, GoldFlight)
                                \/ GT(m.usdt_premium, UsdtFlight)
          is_hibor_squeeze   == hibor # None /\ GT(hibor, HiborSqueeze)
      IN  IF is_cnh_breakout /\ is_spread_critical
            THEN Report("critical", "full_action", "red")
          ELSE IF is_hibor_squeeze
            THEN Report("critical", "emergency_exit", "purple")
          ELSE IF is_spread_high \/ is_capital_flight
            THEN Report("warning", "high_alert", "orange")
          ELSE Report("normal", "stable", "green")

analyze_risk(m, hibor) ==
    IF ~Truthy(m) THEN Report("normal", "stable", "green")
    ELSE
      LET is_spread_high     == GT(m.spread, SpreadHigh)
          is_spread_critical == GT(m.spread, SpreadCritical)
          is_cnh_breakout    == GT(m.cnh, CnhBreakout)
          is_capital_flight  == \/ GT(m.gold_premium, GoldFlight)
                                \/ GT(m.usdt_premium, UsdtFlight)
          is_hibor_squeeze   == hibor # None /\ GT(hibor, HiborSqueeze)
      IN  IF is_hibor_squeeze
            THEN Report("critical", "emergency_exit", "purple")
          ELSE IF is_cnh_breakout /\ is_spread_critical
            THEN Report("critical", "full_action", "red")
          ELSE IF is_spread_high \/ is_capital_flight
            THEN Report("warning", "high_alert", "orange")
          ELSE Report("normal", "stable", "green")

----------------------------------------------------------------------------
(* calculate_metrics *)

GramsPerOunce == Q(311035, 10000)
PipsPerUnit   == N(10000)
Percent       == N(100)

Snapshot(cny, cnh, hkd, gold_intl) ==
    [tag |-> "dict", cny |-> cny, cnh |-> cnh, hkd |-> hkd,
     gold_intl |-> gold_intl]

Metrics(y, spread, gold, gold_premium, usdt, usdt_premium, t) ==
    [tag |-> "dict", cny |-> y.cny, cnh |-> y.cnh, hkd |-> y.hkd,
     spread |-> spread, gold_intl_usd |-> y.gold_intl, sh_gold |-> gold,
     gold_premium |-> gold_premium, usdt_cny |-> usdt,
     usdt_premium |-> usdt_premium, timestamp |-> t]

calculate_metrics(y, gold, usdt, t) ==
    IF ~Truthy(y) THEN None
    ELSE
      LET spread ==
              IF Truthy(y.cnh) /\ Truthy(y.cny)
                THEN Mul(Sub(y.cnh, y.cny), PipsPerUnit)
                ELSE N(0)
          gold_premium ==
              IF Truthy(y.gold_intl) /\ Truthy(y.cny) /\ Truthy(gold)
                THEN Sub(Mul(Div(gold, y.cny), GramsPerOunce), y.gold_intl)
                ELSE N(0)
          usdt_premium_pct ==
              IF Truthy(usdt) /\ Truthy(y.cnh)
                THEN Mul(Div(Sub(usdt, y.cnh), y.cnh), Percent)
                ELSE N(0)
      IN  Metrics(y, spread, gold, gold_premium, usdt, usdt_premium_pct, t)

----------------------------------------------------------------------------
(* get_yahoo_data: the body behind the cache *)

NaN == None

tickers == <<"CNY=X", "CNH=X", "HKD=X", "GC=F">>

\* t.replace('=X', '')
StripX(t) ==
    CASE t = "CNY=X" -> "CNY"
      [] t = "CNH=X" -> "CNH"
      [] t = "HKD=X" -> "HKD"
      [] OTHER       -> t

\* the column names the model lets a frame carry
ColumnNames == {"CNY=X", "CNH=X", "HKD=X", "GC=F", "CNY", "CNH", "HKD",
                "CNYHKD"}

\* s in c (substring), on ColumnNames
Contains(c, s) ==
    \/ c = s
    \/ c = "CNY=X"  /\ s = "CNY"
    \/ c = "CNH=X"  /\ s = "CNH"
    \/ c = "HKD=X"  /\ s = "HKD"
    \/ c = "CNYHKD" /\ s \in {"CNY", "HKD"}

InSeq(x, sq) == \E i \in 1..Len(sq) : sq[i] = x

\* series.dropna()
RECURSIVE dropna(_)
dropna(sq) ==
    IF sq = <<>> THEN <<>>
    ELSE IF Head(sq) = NaN THEN dropna(Tail(sq))
    ELSE <<Head(sq)>> \o dropna(Tail(sq))

\* [c for c in columns if s in c]
RECURSIVE Matching(_, _)
Matching(columns, s) ==
    IF columns = <<>> THEN <<>>
    ELSE IF Contains(Head(columns), s)
      THEN <<Head(columns)>> \o Matching(Tail(columns), s)
      ELSE Matching(Tail(columns), s)

\* the column the loop body reads for ticker t: <<c>>, or <<>> if none
ColumnOf(df, t) ==
    IF InSeq(t, df.columns) THEN <<t>>
    ELSE LET col_name == Matching(df.columns, StripX(t))
         IN  IF col_name # <<>> THEN <<col_name[1]>> ELSE <<>>

\* result.get(t) after the loop: None when no column was found (key never
\* set) or when .iloc[-1] raised on an empty series (key set to None)
Extract(df, t) ==
    LET col == ColumnOf(df, t)
    IN  IF col = <<>> THEN None
        ELSE LET valid == dropna(df.close[col[1]])
             IN  IF valid = <<>> THEN None ELSE valid[Len(valid)]

final_data(df) ==
    Snapshot(Extract(df, "CNY=X"), Extract(df, "CNH=X"),
             Extract(df, "HKD=X"), Extract(df, "GC=F"))

HasNone(d) ==
    None \in {d.cny, d.cnh, d.hkd, d.gold_intl}

get_yahoo_data_partial(dl) ==
    IF dl.tag = "raise" THEN None
    ELSE final_data(dl)

get_yahoo_data(dl) ==
    IF dl.tag = "raise" THEN None
    ELSE IF HasNone(final_data(dl)) THEN None
    ELSE final_data(dl)

----------------------------------------------------------------------------
(* get_shanghai_gold, get_binance_usdt_cny, get_cnh_hibor *)

GoldLow  == N(400)
GoldHigh == N(1000)

Txt == [tag |-> "text"]

\* the inner loop over the cells of one row: <<val>> on return, <<>> else
RECURSIVE ScanCols(_)
ScanCols(cols) ==
    IF cols = <<>> THEN <<>>
    ELSE IF Head(cols).tag = "num" /\ LT(GoldLow, Head(cols))
                                   /\ LT(Head(cols), GoldHigh)
      THEN <<Head(cols)>>
      ELSE ScanCols(Tail(cols))

ScanColsAny(cols) ==
    IF cols # <<>> /\ Head(cols).tag = "num" THEN <<Head(cols)>> ELSE <<>>

\* the outer loop over the rows
RECURSIVE ScanRows(_)
ScanRows(rows) ==
    IF rows = <<>> THEN <<>>
    ELSE LET hit == IF Head(rows).named THEN ScanCols(Head(rows).cols)
                    ELSE <<>>
         IN  IF hit # <<>> THEN hit ELSE ScanRows(Tail(rows))

RECURSIVE ScanRowsAny(_)
ScanRowsAny(rows) ==
    IF rows = <<>> THEN <<>>
    ELSE LET hit == IF Head(rows).named THEN ScanColsAny(Head(rows).cols)
                    ELSE <<>>
         IN  IF hit # <<>> THEN hit ELSE ScanRowsAny(Tail(rows))

get_shanghai_gold_unfiltered(resp) ==
    IF resp.tag = "raise" THEN None
    ELSE IF resp.status # 200 THEN None
    ELSE LET hit == ScanRowsAny(resp.rows)
         IN  IF hit # <<>> THEN hit[1] ELSE None

get_shanghai_gold(resp) ==
    IF resp.tag = "raise" THEN None
    ELSE IF resp.status # 200 THEN None
    ELSE LET hit == ScanRows(resp.rows)
         IN  IF hit # <<>> THEN hit[1] ELSE None

get_binance_usdt_cny(resp) ==
    IF resp.tag = "raise" THEN None
    ELSE IF resp.status # 200 THEN None
    ELSE IF resp.data = <<>> THEN None
    ELSE resp.data[1]

get_cnh_hibor == None

----------------------------------------------------------------------------
(* st.cache_data(ttl=60) around get_yahoo_data *)

TTL == 60

Entry(value, t, id) ==
    [tag |-> "entry", value |-> value, expires |-> t + TTL, id |-> id]

CacheHit_no_expiry(c, t) == c # None

\* a stored entry is served while it is younger than the TTL
CacheHit(c, t) == c # None /\ t < c.expires

cache_clear_noop(c) == c

\* st.cache_data.clear()
cache_clear(c) == None

----------------------------------------------------------------------------
(* main *)

HiborDefault == Q(25, 10)

\* main from "if not yahoo_data" on: what the run computes and renders
Render_unguarded(y, gold, usdt, hibor, t) ==
    LET hibor_val_for_logic == IF Truthy(hibor) THEN hibor ELSE HiborDefault
        m == calculate_metrics(y, gold, usdt, t)
    IN  [metrics |-> m, risk |-> analyze_risk(m, hibor_val_for_logic),
         ui |-> "dashboard", hibor_val |-> hibor_val_for_logic]

Render(y, gold, usdt, hibor, t) ==
    LET hibor_val_for_logic == IF Truthy(hibor) THEN hibor ELSE HiborDefault
    IN  IF ~Truthy(y)
          THEN [metrics |-> None, risk |-> None, ui |-> "error",
                hibor_val |-> hibor_val_for_logic]
          ELSE LET m == calculate_metrics(y, gold, usdt, t)
               IN  [metrics |-> m,
                    risk |-> analyze_risk(m, hibor_val_for_logic),
                    ui |-> "dashboard", hibor_val |-> hibor_val_for_logic]

----------------------------------------------------------------------------
(* bounds and input sets *)

MaxTime   == 90
MaxCycles == 3
TickStep  == 30
MaxCols   == 2
MaxRows   == 2

SeqsUpTo(S, n) == UNION {[1..k -> S] : k \in 0..n}

Range(sq) == {sq[i] : i \in 1..Len(sq)}

Raise == [tag |-> "raise"]

Frame(columns, close) ==
    [tag |-> "frame", columns |-> columns, close |-> close]

NoFrame == Frame(<<>>, <<>>)

Resp(status, rows) == [tag |-> "resp", status |-> status, rows |-> rows]

Row(named, cols) == [named |-> named, cols |-> cols]

Ads(status, data) == [tag |-> "resp", status |-> status, data |-> data]

FourCols == <<"CNY=X", "CNH=X", "HKD=X", "GC=F">>

Calm ==
    Frame(FourCols,
          [c \in {"CNY=X", "CNH=X", "HKD=X", "GC=F"} |->
              CASE c = "CNY=X" -> <<Q(719, 100), Q(720, 100), NaN>>
                [] c = "CNH=X" -> <<Q(722, 100), NaN>>
                [] c = "HKD=X" -> <<Q(780, 100)>>
                [] OTHER       -> <<NaN, N(2000)>>])

Stress ==
    Frame(FourCols,
          [c \in {"CNY=X", "CNH=X", "HKD=X", "GC=F"} |->
              CASE c = "CNY=X" -> <<Q(710, 100)>>
                [] c = "CNH=X" -> <<Q(740, 100)>>
                [] c = "HKD=X" -> <<Q(784, 100)>>
                [] OTHER       -> <<N(2000)>>])

Gappy ==
    Frame(FourCols,
          [c \in {"CNY=X", "CNH=X", "HKD=X", "GC=F"} |->
              CASE c = "CNY=X" -> <<Q(720, 100)>>
                [] c = "CNH=X" -> <<NaN, NaN>>
                [] c = "HKD=X" -> <<Q(780, 100)>>
                [] OTHER       -> <<N(2000)>>])

\* what Yahoo may answer to a request of main
MainFrames == {Calm, Stress, Gappy, Raise}

\* what jinjia.vip may answer to a request of main
MainPages ==
    {Raise, Resp(200, <<Row(TRUE, <<Txt, N(650)>>)>>)}

\* what Binance may answer to a request of main
MainAds == {Raise, Ads(200, <<Q(745, 100)>>)}

NoCycle == [tag |-> "None"]

InitLocals ==
    /\ frame = NoFrame
    /\ page = Raise
    /\ quote_api = None
    /\ yahoo_data = None
    /\ sh_gold = None
    /\ usdt_cny = None
    /\ hibor_val = None
    /\ metrics = None
    /\ risk = None
    /\ ui = "none"
    /\ cycle = NoCycle
    /\ prev = NoCycle

InitShared ==
    /\ now = 0
    /\ cache = None
    /\ requests = [yahoo |-> 0, jinjia |-> 0, binance |-> 0]
    /\ clicked = FALSE

Init ==
    /\ InitShared
    /\ InitLocals
    /\ pc = "idle"

\* time passes
Tick ==
    /\ now + TickStep <= MaxTime
    /\ now' = now + TickStep
    /\ UNCHANGED <<cache, requests, pc, clicked, frame, page, quote_api,
                   yahoo_data, sh_gold, usdt_cny, hibor_val, metrics, risk,
                   ui, cycle, prev>>

\* a script run in which the refresh button was pressed: clear, rerun
ClickRefresh ==
    /\ pc = "idle"
    /\ cache' = cache_clear(cache)
    /\ clicked' = TRUE
    /\ pc' = "rerun"
    /\ UNCHANGED <<now, requests, frame, page, quote_api, yahoo_data, sh_gold,
                   usdt_cny, hibor_val, metrics, risk, ui, cycle, prev>>

\* a script run in which the button was not pressed: one acquisition cycle
RunScript ==
    /\ pc \in {"idle", "rerun"}
    /\ requests.jinjia < MaxCycles
    /\ \E dl \in MainFrames, pg \in MainPages, ads \in MainAds :
         LET hit   == CacheHit(cache, now)
             id    == requests.yahoo + 1
             entry == IF hit THEN cache
                      ELSE Entry(get_yahoo_data(dl), now, id)
             y     == entry.value
             gold  == get_shanghai_gold(pg)
             usdt  == get_binance_usdt_cny(ads)
             out   == Render(y, gold, usdt, get_cnh_hibor, now)
         IN  /\ cache' = entry
             /\ requests' = [yahoo   |-> IF hit THEN requests.yahoo ELSE id,
                             jinjia  |-> requests.jinjia + 1,
                             binance |-> requests.binance + 1]
             /\ yahoo_data' = y
             /\ sh_gold' = gold
             /\ usdt_cny' = usdt
             /\ hibor_val' = out.hibor_val
             /\ metrics' = out.metrics
             /\ risk' = out.risk
             /\ ui' = out.ui
             /\ cycle' = [tag |-> "cycle", at |-> now, served |-> entry.id,
                          cleared |-> clicked, expires |-> entry.expires,
                          requests |-> requests',
                          yahoo_data |-> y, sh_gold |-> gold,
                          usdt_cny |-> usdt, metrics |-> out.metrics]
             /\ prev' = cycle
    /\ clicked' = FALSE
    /\ pc' = "idle"
    /\ UNCHANGED <<now, frame, page, quote_api>>

Next == Tick \/ ClickRefresh \/ RunScript

Spec == Init /\ [][Next]_vars

----------------------------------------------------------------------------
(* analyze_risk on its own *)

RiskSpreads == {N(-200), N(500), N(501), N(1000), N(1001), N(3000)}
RiskCnh     == {Q(720, 100), Q(735, 100), Q(736, 100), Q(740, 100)}
RiskGold    == {N(-50), N(0), N(30), Q(301, 10)}
RiskUsdt    == {N(0), N(2), Q(21, 10)}
RiskHibor   == {None, Q(25, 10), N(10), Q(101, 10), N(12)}

RiskMetrics ==
    {[tag |-> "dict", cny |-> Q(710, 100), cnh |-> c, hkd |-> Q(780, 100),
      spread |-> sp, gold_intl_usd |-> N(2000), sh_gold |-> None,
      gold_premium |-> g, usdt_cny |-> None, usdt_premium |-> u,
      timestamp |-> 0] :
        sp \in RiskSpreads, c \in RiskCnh, g \in RiskGold, u \in RiskUsdt}

InitRisk ==
    /\ InitShared
    /\ pc = "call"
    /\ metrics \in RiskMetrics
    /\ hibor_val \in RiskHibor
    /\ frame = NoFrame
    /\ page = Raise
    /\ quote_api = None
    /\ yahoo_data = None
    /\ sh_gold = None
    /\ usdt_cny = None
    /\ risk = None
    /\ ui = "none"
    /\ cycle = NoCycle
    /\ prev = NoCycle

AnalyzeCall ==
    /\ pc = "call"
    /\ risk' = analyze_risk(metrics, hibor_val)
    /\ pc' = "done"
    /\ UNCHANGED <<now, cache, requests, clicked, frame, page, quote_api,
                   yahoo_data, sh_gold, usdt_cny, hibor_val, metrics, ui,
                   cycle, prev>>

NextRisk == AnalyzeCall

SpecRisk == InitRisk /\ [][NextRisk]_vars

----------------------------------------------------------------------------
(* calculate_metrics on its own *)

MetricRates == {N(0), Q(710, 100), Q(720, 100), Q(740, 100)}
MetricGoldIntl == {N(0), N(2000)}
MetricShGold == {None, N(0), N(650)}
MetricUsdt == {None, N(0), Q(730, 100)}

MetricSnapshots ==
    {Snapshot(cny, cnh, Q(780, 100), g) :
        cny \in MetricRates, cnh \in MetricRates, g \in MetricGoldIntl}

InitMetrics ==
    /\ InitShared
    /\ pc = "call"
    /\ yahoo_data \in MetricSnapshots
    /\ sh_gold \in MetricShGold
    /\ usdt_cny \in MetricUsdt
    /\ metrics = None
    /\ hibor_val = None
    /\ frame = NoFrame
    /\ page = Raise
    /\ quote_api = None
    /\ risk = None
    /\ ui = "none"
    /\ cycle = NoCycle
    /\ prev = NoCycle

CalculateCall ==
    /\ pc = "call"
    /\ metrics' = calculate_metrics(yahoo_data, sh_gold, usdt_cny, now)
    /\ pc' = "done"
    /\ UNCHANGED <<now, cache, requests, clicked, frame, page, quote_api,
                   yahoo_data, sh_gold, usdt_cny, hibor_val, risk, ui,
                   cycle, prev>>

NextMetrics == CalculateCall

SpecMetrics == InitMetrics /\ [][NextMetrics]_vars

----------------------------------------------------------------------------
(* get_yahoo_data on its own, cache aside *)

ColumnLayouts ==
    {FourCols,
     <<"CNY", "CNH", "HKD", "GC=F">>,
     <<"CNY=X", "CNH=X", "HKD=X">>,
     <<"HKD", "CNYHKD", "CNH=X", "GC=F">>,
     <<"CNYHKD", "CNH", "CNY", "GC=F">>}

SeriesSet ==
    {<<>>, <<NaN>>, <<Q(720, 100)>>, <<Q(720, 100), NaN>>,
     <<Q(720, 100), Q(725, 100)>>, <<NaN, Q(725, 100), NaN>>}

YahooFrames ==
    {Raise} \cup
    UNION {{Frame(cols, close) : close \in [Range(cols) -> SeriesSet]} :
               cols \in ColumnLayouts}

InitYahoo ==
    /\ InitShared
    /\ pc = "call"
    /\ frame \in YahooFrames
    /\ yahoo_data = None
    /\ sh_gold = None
    /\ usdt_cny = None
    /\ metrics = None
    /\ hibor_val = None
    /\ page = Raise
    /\ quote_api = None
    /\ risk = None
    /\ ui = "none"
    /\ cycle = NoCycle
    /\ prev = NoCycle

YahooCall ==
    /\ pc = "call"
    /\ yahoo_data' = get_yahoo_data(frame)
    /\ pc' = "done"
    /\ UNCHANGED <<now, cache, requests, clicked, frame, page, quote_api,
                   sh_gold, usdt_cny, hibor_val, metrics, risk, ui, cycle,
                   prev>>

NextYahoo == YahooCall

SpecYahoo == InitYahoo /\ [][NextYahoo]_vars

----------------------------------------------------------------------------
(* get_shanghai_gold on its own *)

Cells == {Txt, N(400), N(650), N(1000)}

\* rows naming the instrument, and one row that does not but carries a price
GoldRows ==
    {Row(TRUE, cols) : cols \in SeqsUpTo(Cells, MaxCols)} \cup
    {Row(FALSE, <<N(650)>>)}

GoldPages ==
    {Raise, Resp(404, <<>>)} \cup
    {Resp(200, rows) : rows \in SeqsUpTo(GoldRows, MaxRows)}

QuoteApiAnswers == {None, N(650)}

InitGold ==
    /\ InitShared
    /\ pc = "call"
    /\ page \in GoldPages
    /\ quote_api \in QuoteApiAnswers
    /\ sh_gold = None
    /\ yahoo_data = None
    /\ usdt_cny = None
    /\ metrics = None
    /\ hibor_val = None
    /\ frame = NoFrame
    /\ risk = None
    /\ ui = "none"
    /\ cycle = NoCycle
    /\ prev = NoCycle

GoldCall ==
    /\ pc = "call"
    /\ sh_gold' = get_shanghai_gold(page)
    /\ pc' = "done"
    /\ UNCHANGED <<now, cache, requests, clicked, frame, page, quote_api,
                   yahoo_data, usdt_cny, hibor_val, metrics, risk, ui, cycle,
                   prev>>

NextGold == GoldCall

SpecGold == InitGold /\ [][NextGold]_vars

----------------------------------------------------------------------------
(* Properties of analyze_risk (SpecRisk) *)

Squeeze == hibor_val # None /\ GT(hibor_val, N(10))

Breakout == GT(metrics.cnh, Q(735, 100)) /\ GT(metrics.spread, N(1000))

Alert ==
    \/ GT(metrics.spread, N(500))
    \/ GT(metrics.gold_premium, N(30))
    \/ GT(metrics.usdt_premium, N(2))

\* C1 as stated: when the funding-cost rate is above 10 and the breakout
\* rule holds too, the returned level is critical-liquidity, not critical.
C1_LevelCriticalLiquidity ==
    (pc = "done" /\ Squeeze /\ Breakout) =>
        risk.level = "critical-liquidity" /\ risk.level # "critical"

\* C1 amended: when the funding-cost rate is above 10 and the breakout rule
\* holds too, the funding-squeeze rule wins: the report carries the
\* emergency-exit advisory and the colour purple, which differ from the
\* breakout report's advisory and colour red; its level is critical, the
\* same level string as the breakout report's.
C1_SqueezeWins ==
    (pc = "done" /\ Squeeze /\ Breakout) =>
        /\ risk.level = "critical"
        /\ risk.msg = "emergency_exit"
        /\ risk.color = "purple"
        /\ risk # Report("critical", "full_action", "red")

C1_Witness ==
    /\ pc = "done"
    /\ Squeeze
    /\ Breakout
    /\ risk.color = "purple"

\* C2: with the funding-cost rate absent or <= 10 the level is critical iff
\* offshore > 7.35 and spread > 1000, else warning iff spread > 500 or gold
\* premium > 30 or USDT premium > 2.0, else normal; all comparisons strict.
C2_FirstTrueRuleWins ==
    (pc = "done" /\ ~Squeeze) =>
        risk.level = IF Breakout THEN "critical"
                     ELSE IF Alert THEN "warning"
                     ELSE "normal"

C2_Witness ==
    /\ pc = "done"
    /\ hibor_val = N(10)
    /\ metrics.cnh = Q(735, 100)
    /\ metrics.spread = N(500)
    /\ metrics.gold_premium = N(30)
    /\ metrics.usdt_premium = N(2)
    /\ risk.level = "normal"

----------------------------------------------------------------------------
(* Properties of calculate_metrics (SpecMetrics) *)

\* C8: for every snapshot with four numeric rates, zero included, spread is
\* (offshore - onshore) * 10000: positive when offshore > onshore, negative
\* when offshore < onshore, zero only when they are equal.
C8_SpreadExact ==
    pc = "done" =>
        /\ metrics # None
        /\ metrics.spread =
               Mul(Sub(yahoo_data.cnh, yahoo_data.cny), N(10000))
        /\ GT(yahoo_data.cnh, yahoo_data.cny) => GT(metrics.spread, N(0))
        /\ LT(yahoo_data.cnh, yahoo_data.cny) => LT(metrics.spread, N(0))
        /\ metrics.spread = N(0) => yahoo_data.cnh = yahoo_data.cny

\* the gold premium formula applied to a provided Shanghai gold price
GoldFormula(y, gold) ==
    Sub(Mul(Div(gold, y.cny), Q(311035, 10000)), y.gold_intl)

\* the USDT premium formula applied to a provided USDT price
UsdtFormula(y, usdt) ==
    Mul(Div(Sub(usdt, y.cnh), y.cnh), N(100))

\* C9: an absent auxiliary signal zeroes only its own premium and leaves the
\* spread, the echoed rates and the other premium as they are with the
\* signal present; a signal provided as zero has the formula applied.
C9_AbsenceDegradesOnlyItsMetric ==
    pc = "done" =>
        /\ metrics # None
        /\ sh_gold = None => metrics.gold_premium = N(0)
        /\ usdt_cny = None => metrics.usdt_premium = N(0)
        /\ \A g \in MetricShGold :
              LET m == calculate_metrics(yahoo_data, g, usdt_cny, now)
              IN  /\ m.spread = metrics.spread
                  /\ m.usdt_premium = metrics.usdt_premium
                  /\ <<m.cny, m.cnh, m.hkd, m.gold_intl_usd>> =
                       <<metrics.cny, metrics.cnh, metrics.hkd,
                         metrics.gold_intl_usd>>
        /\ \A u \in MetricUsdt :
              LET m == calculate_metrics(yahoo_data, sh_gold, u, now)
              IN  /\ m.spread = metrics.spread
                  /\ m.gold_premium = metrics.gold_premium
                  /\ <<m.cny, m.cnh, m.hkd, m.gold_intl_usd>> =
                       <<metrics.cny, metrics.cnh, metrics.hkd,
                         metrics.gold_intl_usd>>
        /\ (sh_gold = N(0) /\ yahoo_data.cny.num # 0) =>
              metrics.gold_premium = GoldFormula(yahoo_data, sh_gold)
        /\ (usdt_cny = N(0) /\ yahoo_data.cnh.num # 0) =>
              metrics.usdt_premium = UsdtFormula(yahoo_data, usdt_cny)

----------------------------------------------------------------------------
(* Properties of get_yahoo_data (SpecYahoo) *)

\* the position in the column list of the column read for ticker t, 0 if none
ColumnIndex(df, t) ==
    LET exact == {i \in 1..Len(df.columns) : df.columns[i] = t}
        loose == {i \in 1..Len(df.columns) :
                      Contains(df.columns[i], StripX(t))}
        pick  == IF exact # {} THEN exact ELSE loose
    IN  IF pick = {} THEN 0
        ELSE CHOOSE i \in pick : \A j \in pick : i <= j

\* v is the last non-missing value of series sq
IsLastValid(v, sq) ==
    \E i \in 1..Len(sq) :
        /\ sq[i] = v
        /\ sq[i] # NaN
        /\ \A j \in (i + 1)..Len(sq) : sq[j] = NaN

\* v is the last non-missing value of the column of ticker t
Resolves(df, t, v) ==
    /\ ColumnIndex(df, t) # 0
    /\ IsLastValid(v, df.close[df.columns[ColumnIndex(df, t)]])

Resolvable(df, t) ==
    /\ ColumnIndex(df, t) # 0
    /\ \E v \in Range(df.close[df.columns[ColumnIndex(df, t)]]) : v # NaN

AllResolvable(dl) ==
    /\ dl.tag = "frame"
    /\ \A i \in 1..Len(tickers) : Resolvable(dl, tickers[i])

\* C3: get_yahoo_data returns either a snapshot whose four rates are each the
\* last non-missing value of their column, or absent; absent exactly when
\* the download raised or one of the four cannot be resolved.
C3_NoPartialSnapshot ==
    pc = "done" =>
        IF AllResolvable(frame)
          THEN /\ yahoo_data # None
               /\ Resolves(frame, "CNY=X", yahoo_data.cny)
               /\ Resolves(frame, "CNH=X", yahoo_data.cnh)
               /\ Resolves(frame, "HKD=X", yahoo_data.hkd)
               /\ Resolves(frame, "GC=F", yahoo_data.gold_intl)
          ELSE yahoo_data = None

C3_Witness ==
    /\ pc = "done"
    /\ yahoo_data # None
    /\ frame.columns = FourCols
    /\ frame.close["CNY=X"] = <<NaN, Q(725, 100), NaN>>
    /\ frame.close["CNH=X"] = <<Q(720, 100), Q(725, 100)>>
    /\ yahoo_data.cny = Q(725, 100)

----------------------------------------------------------------------------
(* Properties of get_shanghai_gold (SpecGold) *)

Plausible(v) == v.tag = "num" /\ GT(v, N(400)) /\ LT(v, N(1000))

\* the cells of the rows that name the instrument, as <<row, column>>
NamedCells(resp) ==
    IF resp.tag # "resp" \/ resp.status # 200 THEN {}
    ELSE {ij \in (1..Len(resp.rows)) \X (1..MaxCols + 1) :
              /\ resp.rows[ij[1]].named
              /\ ij[2] <= Len(resp.rows[ij[1]].cols)}

PlausibleCells(resp) ==
    {ij \in NamedCells(resp) : Plausible(resp.rows[ij[1]].cols[ij[2]])}

Before(a, b) == a[1] < b[1] \/ (a[1] = b[1] /\ a[2] < b[2])

\* C4 as stated: the chain returns the first source's value if plausible,
\* the second source's value when the first fails or is implausible and the
\* second is plausible, absent when all fail; never out of range.
C4_FallbackToSecondSource ==
    pc = "done" =>
        /\ sh_gold # None => Plausible(sh_gold)
        /\ PlausibleCells(page) # {} =>
              \E ij \in PlausibleCells(page) :
                  sh_gold = page.rows[ij[1]].cols[ij[2]]
        /\ (PlausibleCells(page) = {} /\ Plausible(quote_api)) =>
              sh_gold = quote_api
        /\ (PlausibleCells(page) = {} /\ ~Plausible(quote_api)) =>
              sh_gold = None

\* C4 amended: get_shanghai_gold has one source, the jinjia.vip page: it
\* returns the first cell, in document order, of a row naming the instrument
\* whose number lies strictly between 400 and 1000, and absent when the
\* request fails, the status is not 200 or there is no such cell, whatever
\* any other source would answer; it never returns a value outside the range.
C4_SingleSource ==
    pc = "done" =>
        /\ sh_gold # None => Plausible(sh_gold)
        /\ PlausibleCells(page) # {} =>
              \E ij \in PlausibleCells(page) :
                  /\ sh_gold = page.rows[ij[1]].cols[ij[2]]
                  /\ \A kl \in PlausibleCells(page) : ~Before(kl, ij)
        /\ PlausibleCells(page) = {} => sh_gold = None

C4_Witness ==
    /\ pc = "done"
    /\ page.tag = "resp"
    /\ page.status = 200
    /\ Len(page.rows) = 2
    /\ ~page.rows[1].named
    /\ page.rows[1].cols = <<N(650)>>
    /\ page.rows[2].named
    /\ page.rows[2].cols = <<N(1000), N(650)>>
    /\ sh_gold = N(650)

----------------------------------------------------------------------------
(* Properties of the cache and of main (Spec) *)

TwoCycles == cycle # NoCycle /\ prev # NoCycle

\* the last cycle ran while the entry the cycle before it left was still
\* younger than the TTL, and the cache was not cleared in between
WithinTTL == TwoCycles /\ ~cycle.cleared /\ cycle.at < prev.expires

\* the last cycle ran once the entry the cycle before it left had expired
AfterExpiry == TwoCycles /\ cycle.at >= prev.expires

\* C5 as stated: two cycles within the TTL and with no clear in between get
\* identical bundles (snapshot rates, Shanghai gold, USDT price, timestamps)
\* and issue no new source request; the first cycle after expiry triggers
\* exactly one fresh fetch.
C5_WholeBundleCached ==
    /\ WithinTTL =>
          /\ cycle.yahoo_data = prev.yahoo_data
          /\ cycle.sh_gold = prev.sh_gold
          /\ cycle.usdt_cny = prev.usdt_cny
          /\ cycle.metrics = prev.metrics
          /\ cycle.requests = prev.requests
    /\ AfterExpiry =>
          cycle.requests.yahoo = prev.requests.yahoo + 1

\* C5 amended: only get_yahoo_data is cached.  Two cycles within the TTL and
\* with no clear in between get the same get_yahoo_data result, produced by
\* the same Yahoo request, and issue no new Yahoo request, while the
\* Shanghai gold page and the USDT listing are requested anew in every cycle
\* and the metrics timestamp is taken anew; the first cycle after expiry
\* issues exactly one Yahoo request and is served its result.
C5_SnapshotCached ==
    /\ WithinTTL =>
          /\ cycle.yahoo_data = prev.yahoo_data
          /\ cycle.served = prev.served
          /\ cycle.requests.yahoo = prev.requests.yahoo
    /\ AfterExpiry =>
          /\ cycle.requests.yahoo = prev.requests.yahoo + 1
          /\ cycle.served = cycle.requests.yahoo
    /\ TwoCycles =>
          /\ cycle.requests.jinjia = prev.requests.jinjia + 1
          /\ cycle.requests.binance = prev.requests.binance + 1
    /\ cycle # NoCycle /\ cycle.metrics # None =>
          cycle.metrics.timestamp = cycle.at

C5_Witness ==
    /\ WithinTTL
    /\ cycle.at > prev.at
    /\ cycle.yahoo_data # None
    /\ cycle.sh_gold # prev.sh_gold
    /\ cycle.usdt_cny # prev.usdt_cny

\* C6: the cache entry only ever holds a successful bundle: a failed fetch
\* is never stored, and a cycle is never served an earlier failure.
C6_OnlySuccessCached ==
    /\ cache # None => cache.value # None
    /\ (cycle # NoCycle /\ cycle.yahoo_data = None) =>
          cycle.served = cycle.requests.yahoo
          /\ (prev # NoCycle => cycle.served > prev.served)

\* C7: the acquisition cycle that follows a cache clear performs a fresh
\* fetch and is not served the bundle cached before the clear, whatever its
\* age.
C7_ClearForcesFetch ==
    (cycle # NoCycle /\ cycle.cleared) =>
        /\ cycle.served = cycle.requests.yahoo
        /\ prev # NoCycle =>
              /\ cycle.requests.yahoo = prev.requests.yahoo + 1
              /\ cycle.served > prev.served

C7_Witness ==
    /\ TwoCycles
    /\ cycle.cleared
    /\ cycle.at < prev.expires
    /\ prev.yahoo_data # None

\* C10: a script run computes metrics and a risk level only with a usable
\* snapshot; with the snapshot absent it reports the acquisition failure and
\* ends with neither, whatever the other fetches returned, and the next run
\* can start.
C10_ClassifierNeedsSnapshot ==
    cycle # NoCycle =>
        /\ pc = "idle" \/ pc = "rerun"
        /\ IF yahoo_data = None
             THEN ui = "error" /\ metrics = None /\ risk = None
             ELSE /\ ui = "dashboard"
                  /\ metrics # None
                  /\ risk = analyze_risk(metrics, Q(25, 10))

C10_Witness ==
    /\ cycle # NoCycle
    /\ ui = "error"
    /\ yahoo_data = None
    /\ sh_gold # None
    /\ usdt_cny # None

====
